---- MODULE Spec2Model ----
(***************************************************************************)
(* Model of src/app.py: the MNIST digit classification API.                *)
(*                                                                         *)
(* The module-level load (load_model_any + the try/except around it), the  *)
(* helper predict_with_probs and the four Flask handlers are translated    *)
(* from the source.  The persisted artifact, the loaded estimator and the  *)
(* request bodies are the environment: they are drawn from bounded sets.   *)
(*                                                                         *)
(* Conventions.                                                            *)
(*  - A Python list / numpy vector of length n is a sequence of length n;  *)
(*    Python index i is sequence position i + 1.                           *)
(*  - Probabilities are fixed-point numbers in thousandths (1000 = 1.0).   *)
(*  - The flattened pixel content of a request is abstracted to an input   *)
(*    identifier in Inputs; the estimator is a function of it.             *)
(***************************************************************************)
EXTENDS Integers, Sequences, FiniteSets, TLC

VARIABLES
    phase,      \* "boot" before the module-level load ran, "serving" after
    artifact,   \* what joblib.load(MODEL_PATH) finds on disk
    pil,        \* whether "from PIL import Image" succeeds in this process
    model,      \* the module global `model` (NoModel is Python's None)
    loads,      \* number of calls of load_model_any made so far
    log,        \* what the module-level load printed
    req,        \* the last request handled
    resp,       \* the response returned for it
    calls       \* collaborator calls the last handler made, in order

vars == <<phase, artifact, pil, model, loads, log, req, resp, calls>>

----------------------------------------------------------------------------
(* Program constants *)

\* len(pixels) != 784, reshape(1, 784)
ExpectedPixels == 784

\* np.zeros(10), range(10)
NumLabels == 10

\* MODEL_PATH = "mnist_model.pkl"
MODEL_PATH == "mnist_model.pkl"

\* for key in ("model", "clf", "pipeline", "estimator")
RecognizedKeys == <<"model", "clf", "pipeline", "estimator">>

----------------------------------------------------------------------------
(* Bounds of the model *)

\* number of distinct adapted pixel contents
NumInputs == 2

\* longest known-classes list of a subset-trained estimator
MaxK == 3

\* most keys in a keyed artifact
MaxKeys == 2

Inputs == 1..NumInputs

\* probabilities an estimator reports, in thousandths
ProbPool == {0, 200, 300, 500}

\* decision scores an estimator reports
LogitPool == {-1, 0, 2}

\* class labels of subset-trained estimators
LabelPool == {0, 1, 3, 9}

\* keys a keyed artifact may hold
KeyPool == {"model", "clf", "classifier", "pipeline", "estimator", "scaler"}

----------------------------------------------------------------------------
(* Sequence helpers *)

Range(s) == {s[i] : i \in DOMAIN s}

Distinct(s) == \A i, j \in DOMAIN s : i # j => s[i] # s[j]

MinOf(a, b) == IF a <= b THEN a ELSE b

\* sequences over S of length 1..n without repetition
DistinctSeqs(S, n) ==
    UNION {{s \in [1..k -> S] : Distinct(s)} : k \in 1..n}

\* np.zeros(n)
Zeros(n) == [i \in 1..n |-> 0]

\* whether v[idx] is a valid numpy index (negative indices wrap)
IndexOk(n, idx) == idx \in (0 - n)..(n - 1)

\* the sequence position numpy index idx denotes in a vector of length n
Pos(n, idx) == IF idx >= 0 THEN idx + 1 ELSE n + idx + 1

\* np.max(v)
MaxOf(v) == CHOOSE m \in Range(v) : \A y \in Range(v) : y <= m

RECURSIVE SumTo(_, _)
SumTo(v, n) == IF n = 0 THEN 0 ELSE v[n] + SumTo(v, n - 1)

----------------------------------------------------------------------------
(* The model global and the estimators it may hold *)

\* model = None
NoModel == [name |-> "None"]

Attrs == {"predict_proba", "decision_function", "classes_"}

\* the labels 0..9 in order
FullClasses == [i \in 1..NumLabels |-> i - 1]

\* An estimator: what hasattr() finds on it (attrs), its fitted classes,
\* and what its methods return for each input.  proba is read only when
\* predict_proba exists; scores only when decision_function exists and
\* predict_proba does not.
Estimator(attrs, classes, pred, proba, scores, raises) ==
    [name    |-> "bare",
     type    |-> "Estimator",
     attrs   |-> attrs,
     classes |-> classes,
     pred    |-> pred,
     proba   |-> proba,
     scores  |-> scores,
     raises  |-> raises]

NoOut == [x \in Inputs |-> <<>>]

\* every non-raising estimator over the given class lists, output functions
\* (probas[k], scores[k]: input -> vector of length k) and predict functions
Estimators(classLists, probas, decisions, preds) ==
    UNION {
      UNION {
        {Estimator(attrs, cl, pred, proba, scores, FALSE) :
            pred   \in preds,
            proba  \in (IF "predict_proba" \in attrs
                          THEN probas[Len(cl)]
                          ELSE {NoOut}),
            scores \in (IF "decision_function" \in attrs
                           /\ "predict_proba" \notin attrs
                          THEN decisions[Len(cl)]
                          ELSE {NoOut})}
        : attrs \in SUBSET Attrs}
      : cl \in classLists}

----------------------------------------------------------------------------
(* _softmax, lines 59-63, in fixed point *)

\* 1000 * exp(-d) for an integer d >= 0, rounded
ExpMilli(d) ==
    CASE d = 0 -> 1000
      [] d = 1 -> 368
      [] d = 2 -> 135
      [] d = 3 -> 50
      [] d = 4 -> 18
      [] d = 5 -> 7
      [] d = 6 -> 2
      [] d = 7 -> 1
      [] OTHER -> 0

\* x - max(x); exp; exp / sum(exp), for the single row of the logits
Softmax(x) ==
    LET m   == MaxOf(x)
        ex  == [i \in DOMAIN x |-> ExpMilli(m - x[i])]
        tot == SumTo(ex, Len(ex))
    IN  [i \in DOMAIN x |-> (ex[i] * 1000) \div tot]

----------------------------------------------------------------------------
(* predict_with_probs, lines 66-108 *)

\* a raised exception
Raise(what) == [ok |-> FALSE, exc |-> what]

\* a returned (pred_digit, probs)
Return(digit, probs) == [ok |-> TRUE, digit |-> digit, probs |-> probs]

\* the scatter written as full[i] = p: by position, not by class label
ScatterZip_ByPosition(full, classes, probs, i) ==
    [ok |-> TRUE,
     v  |-> [n \in DOMAIN full |->
                IF n <= MinOf(Len(classes), Len(probs)) THEN probs[n]
                ELSE full[n]]]

\* for cls, p in zip(model.classes_, probs): full[int(cls)] = float(p)
RECURSIVE ScatterZip(_, _, _, _)
ScatterZip(full, classes, probs, i) ==
    IF i > MinOf(Len(classes), Len(probs)) THEN [ok |-> TRUE, v |-> full]
    ELSE IF ~IndexOk(Len(full), classes[i]) THEN [ok |-> FALSE, v |-> full]
    ELSE ScatterZip([full EXCEPT ![Pos(Len(full), classes[i])] = probs[i]],
                    classes, probs, i + 1)

\* for idx, cls in enumerate(model.classes_): full[int(cls)] = float(probs[idx])
RECURSIVE ScatterEnum(_, _, _, _)
ScatterEnum(full, classes, probs, i) ==
    IF i > Len(classes) THEN [ok |-> TRUE, v |-> full]
    ELSE IF i > Len(probs) \/ ~IndexOk(Len(full), classes[i])
         THEN [ok |-> FALSE, v |-> full]
    ELSE ScatterEnum([full EXCEPT ![Pos(Len(full), classes[i])] = probs[i]],
                     classes, probs, i + 1)

\* lines 77-88: the predict_proba branch
ProbaBranch(m, x, pred_digit) ==
    LET probs == m.proba[x]
    IN  IF Len(probs) # NumLabels /\ "classes_" \in m.attrs
        THEN LET full == ScatterZip(Zeros(NumLabels), m.classes, probs, 1)
             IN  IF full.ok THEN Return(pred_digit, full.v)
                 ELSE Raise("IndexError")
        ELSE Return(pred_digit, probs)

\* lines 91-103: the decision_function branch
DecisionBranch(m, x, pred_digit) ==
    LET probs == Softmax(m.scores[x])
    IN  IF Len(probs) # NumLabels /\ "classes_" \in m.attrs
        THEN LET full == ScatterEnum(Zeros(NumLabels), m.classes, probs, 1)
             IN  IF full.ok THEN Return(pred_digit, full.v)
                 ELSE Raise("IndexError")
        ELSE Return(pred_digit, probs)

\* lines 106-108: the one-hot fallback
OneHotBranch(pred_digit) ==
    IF IndexOk(NumLabels, pred_digit)
    THEN Return(pred_digit,
                [Zeros(NumLabels) EXCEPT ![Pos(NumLabels, pred_digit)] = 1000])
    ELSE Raise("IndexError")

predict_with_probs(m, x) ==
    IF m.raises THEN Raise("ModelError")
    ELSE LET pred_digit == m.pred[x]
         IN  IF "predict_proba" \in m.attrs
                 THEN ProbaBranch(m, x, pred_digit)
             ELSE IF "decision_function" \in m.attrs
                 THEN DecisionBranch(m, x, pred_digit)
             ELSE OneHotBranch(pred_digit)

\* the estimator methods predict_with_probs calls, in order
InferCalls(m) ==
    <<"predict">>
    \o (IF m.raises THEN <<>>
        ELSE IF "predict_proba" \in m.attrs THEN <<"predict_proba">>
        ELSE IF "decision_function" \in m.attrs THEN <<"decision_function">>
        ELSE <<>>)

----------------------------------------------------------------------------
(* load_model_any, lines 21-42, and the module-level load, lines 45-53 *)

\* obj[key] of a keyed artifact: each key holds its own object
ValueUnder(art, key) == [art.base EXCEPT !.name = key]

\* for key in (...): if key in obj: return obj[key]
RECURSIVE FirstPresent(_, _, _)
FirstPresent(order, present, i) ==
    IF i > Len(order) THEN ""
    ELSE IF order[i] \in present THEN order[i]
    ELSE FirstPresent(order, present, i + 1)

\* the loader returning the first recognized key in the mapping's own order
load_model_any_MappingOrder(art) ==
    CASE art.kind = "absent"  -> Raise("FileNotFoundError")
      [] art.kind = "corrupt" -> Raise("Exception")
      [] art.kind = "bare"    -> [ok |-> TRUE, obj |-> art.obj]
      [] art.kind = "dict"    ->
            LET key == FirstPresent(art.keys, Range(RecognizedKeys), 1)
            IN  IF key # ""
                THEN [ok |-> TRUE, obj |-> ValueUnder(art, key)]
                ELSE [ok |-> FALSE, exc |-> "ValueError", keys |-> art.keys]

load_model_any(art) ==
    CASE art.kind = "absent"  -> Raise("FileNotFoundError")
      [] art.kind = "corrupt" -> Raise("Exception")
      [] art.kind = "bare"    -> [ok |-> TRUE, obj |-> art.obj]
      [] art.kind = "dict"    ->
            LET key == FirstPresent(RecognizedKeys, Range(art.keys), 1)
            IN  IF key # ""
                THEN [ok |-> TRUE, obj |-> ValueUnder(art, key)]
                ELSE [ok |-> FALSE, exc |-> "ValueError", keys |-> art.keys]

\* the global `model` after the try/except of lines 45-53
LoadedModel(art) ==
    LET r == load_model_any(art)
    IN  IF r.ok THEN r.obj ELSE NoModel

\* what lines 47, 49 and 52 print
LoadLog(art) ==
    LET r == load_model_any(art)
    IN  IF r.ok THEN [text |-> "Model loaded successfully", path |-> MODEL_PATH]
        ELSE IF r.exc = "FileNotFoundError"
             THEN [text |-> "Model file not found", path |-> MODEL_PATH]
        ELSE IF r.exc = "ValueError"
             THEN [text |-> "Failed to load model", path |-> MODEL_PATH,
                   found_keys |-> r.keys]
        ELSE [text |-> "Failed to load model", path |-> MODEL_PATH]

----------------------------------------------------------------------------
(* Requests *)

NoReq == [route |-> "none"]

NoResp == [status |-> 0]

\* request.get_json(silent=True) that is not a JSON object:
\* None, a falsy value, a truthy number, a non-empty list or string
\* (has: whether `"<field>" in data` is true of it)
NonObjectBodies ==
    {[kind |-> "none"], [kind |-> "falsy"], [kind |-> "number"]}
    \cup {[kind |-> k, has |-> h] : k \in {"list", "string"}, h \in BOOLEAN}

\* lengths a "pixels" list may have: the expected one and others
PixelLens == {0, ExpectedPixels - 1, ExpectedPixels, ExpectedPixels + 1}

\* data["pixels"]: not a list, a list with an entry that is no number, or
\* a list of numbers (x: its content)
PixelValues ==
    {[isList |-> FALSE]}
    \cup {[isList |-> TRUE, len |-> n, elems |-> "text"] : n \in PixelLens}
    \cup {[isList |-> TRUE, len |-> n, elems |-> "numeric", x |-> x] :
             n \in PixelLens, x \in Inputs}

\* data["image"]: decodable base64 image data or not; light: mean > 0.5
ImageValues ==
    {[decodable |-> FALSE]}
    \cup {[decodable |-> TRUE, light |-> l, x |-> x] :
             l \in BOOLEAN, x \in Inputs}

ObjectBodies(values) ==
    {[kind |-> "object", has |-> FALSE]}
    \cup {[kind |-> "object", has |-> TRUE, val |-> v] : v \in values}

PredictBodies == NonObjectBodies \cup ObjectBodies(PixelValues)

ImageBodies == NonObjectBodies \cup ObjectBodies(ImageValues)

----------------------------------------------------------------------------
(* Responses *)

\* jsonify({"error": ..., "message": ...}), status
Failure(status, error, message) ==
    [status |-> status, body |-> [error |-> error, message |-> message]]

\* jsonify({"error": ...}), status
BareFailure(status, error) ==
    [status |-> status, body |-> [error |-> error]]

\* an exception escaping the view function: Flask answers 500 with its own page
Unhandled(exc) ==
    [status |-> 500, body |-> [html |-> "Internal Server Error", exc |-> exc]]

Handled(r, c) == [resp |-> r, calls |-> c]

\* lines 378-384 and 417-423: the response built from (digit, probs)
\* {str(i): float(probs[i]) for i in range(10)} raises when probs is shorter
SuccessOrIndexError(r, failure) ==
    IF Len(r.probs) = 0 THEN Failure(500, failure, [exc |-> "ValueError"])
    ELSE IF Len(r.probs) < NumLabels
         THEN Failure(500, failure, [exc |-> "IndexError"])
    ELSE [status |-> 200,
          body |-> [digit         |-> r.digit,
                    confidence    |-> MaxOf(r.probs),
                    probabilities |-> [i \in 1..NumLabels |-> r.probs[i]]]]

\* the try block around predict_with_probs
Inference(m, x, failure) ==
    LET r == predict_with_probs(m, x)
    IN  IF r.ok THEN SuccessOrIndexError(r, failure)
        ELSE Failure(500, failure, [exc |-> r.exc])

----------------------------------------------------------------------------
(* predict, lines 352-387 *)

\* the length test written as len(pixels) < 784
PixelsRejected_ShortOnly(pixels) ==
    ~pixels.isList \/ pixels.len < ExpectedPixels

\* if not isinstance(pixels, list) or len(pixels) != 784
PixelsRejected(pixels) == ~pixels.isList \/ pixels.len # ExpectedPixels

\* f"Expected 784 pixel values, got {...}"
PixelsMessage(pixels) ==
    IF pixels.isList
    THEN [text |-> "Expected {} pixel values, got {}",
          expected |-> ExpectedPixels, got |-> pixels.len]
    ELSE [text |-> "Expected {} pixel values, got invalid type",
          expected |-> ExpectedPixels]

\* lines 360-387: the handler once the model is known to be loaded
PredictLoaded(m, data) ==
    IF data.kind \in {"none", "falsy"}
    THEN Handled(Failure(400, "Invalid request",
                         [text |-> "Please provide JSON with pixels array"]),
                 <<"get_json">>)
    ELSE IF data.kind = "number"
    THEN Handled(Unhandled("TypeError"), <<"get_json">>)
    ELSE IF ~data.has
    THEN Handled(Failure(400, "Invalid request",
                         [text |-> "Please provide JSON with pixels array"]),
                 <<"get_json">>)
    ELSE IF data.kind \in {"list", "string"}
    THEN Handled(Unhandled("TypeError"), <<"get_json">>)
    ELSE IF PixelsRejected(data.val)
    THEN Handled(Failure(400, "Invalid pixels", PixelsMessage(data.val)),
                 <<"get_json">>)
    ELSE IF data.val.elems # "numeric"
    THEN Handled(Failure(500, "Prediction failed", [exc |-> "ValueError"]),
                 <<"get_json", "np.array">>)
    ELSE Handled(Inference(m, data.val.x, "Prediction failed"),
                 <<"get_json", "np.array">> \o InferCalls(m))

\* lines 354-358: if model is None
ModelNotLoaded ==
    Failure(500, "Model not loaded",
            [text |-> "Please ensure {} exists", path |-> MODEL_PATH])

\* the handler reading the body before it looks at the model
PredictHandler_BodyFirst(m, data) ==
    IF data.kind \in {"none", "falsy"} \/ m # NoModel
    THEN PredictLoaded(m, data)
    ELSE Handled(ModelNotLoaded, <<>>)

PredictHandler(m, data) ==
    IF m = NoModel THEN Handled(ModelNotLoaded, <<>>)
    ELSE PredictLoaded(m, data)

----------------------------------------------------------------------------
(* predict_image, lines 390-431 *)

\* pixels = 1.0 - pixels, on input identifiers
InvertInput(x) == NumInputs + 1 - x

\* lines 408-414: if pixels.mean() > 0.5: invert
AdaptImage(image) == IF image.light THEN InvertInput(image.x) ELSE image.x

PredictImageHandler(m, data, hasPil) ==
    IF m = NoModel
    THEN Handled(BareFailure(500, "Model not loaded"), <<>>)
    ELSE IF data.kind \in {"none", "falsy"}
    THEN Handled(Failure(400, "Invalid request",
                         [text |-> "Please provide JSON with image field"]),
                 <<"get_json">>)
    ELSE IF data.kind = "number"
    THEN Handled(Unhandled("TypeError"), <<"get_json">>)
    ELSE IF ~data.has
    THEN Handled(Failure(400, "Invalid request",
                         [text |-> "Please provide JSON with image field"]),
                 <<"get_json">>)
    ELSE IF ~hasPil
    THEN Handled(Failure(500, "PIL not installed",
                         [text |-> "pip install pillow"]),
                 <<"get_json", "import PIL">>)
    ELSE IF data.kind \in {"list", "string"}
    THEN Handled(Failure(500, "Image prediction failed", [exc |-> "TypeError"]),
                 <<"get_json", "import PIL">>)
    ELSE IF ~data.val.decodable
    THEN Handled(Failure(500, "Image prediction failed", [exc |-> "DecodeError"]),
                 <<"get_json", "import PIL", "b64decode">>)
    ELSE Handled(Inference(m, AdaptImage(data.val), "Image prediction failed"),
                 <<"get_json", "import PIL", "b64decode", "Image.open">>
                 \o InferCalls(m))

----------------------------------------------------------------------------
(* home, lines 337-339, and health, lines 342-349 *)

HomeResponse == [status |-> 200, body |-> [html |-> "HOME_TEMPLATE"]]

HealthResponse(m) ==
    [status |-> 200,
     body |-> [status       |-> "healthy",
               model_loaded |-> m # NoModel,
               model_path   |-> MODEL_PATH,
               model_type   |-> IF m # NoModel THEN m.type ELSE "None"]]

----------------------------------------------------------------------------
(* The environment: estimators and artifacts the process may meet *)

\* a vector of length k with its mass on the first three classes
HeadVec(k) ==
    [n \in 1..k |-> IF n = 1 THEN 200 ELSE IF n = 2 THEN 500
                    ELSE IF n = 3 THEN 300 ELSE 0]

\* a vector of length k whose first and last entries tie for the maximum
TieVec(k) == [n \in 1..k |-> IF n \in {1, k} THEN 500 ELSE 0]

HeadScores(k) ==
    [n \in 1..k |-> IF n = 1 THEN 0 ELSE IF n = 2 THEN 2 ELSE -1]

TieScores(k) == [n \in 1..k |-> IF n \in {1, k} THEN 2 ELSE 0]

\* model.predict_proba / decision_function: one vector whatever the input,
\* or another vector for the first input
OutputFns(v, w) ==
    {[x \in Inputs |-> v], [x \in Inputs |-> IF x = 1 THEN w ELSE v]}

\* estimators the served process is run with: trained on a subset of the
\* digits, on all ten, or on labels outside 0..9
ServeClassLists == {<<0, 1, 3>>, FullClasses, <<1, 10>>}

\* model.predict: one label whatever the input, or a label per input
ServePreds ==
    {[x \in Inputs |-> 1], [x \in Inputs |-> IF x = 1 THEN 3 ELSE 1]}

ServeEstimators ==
    Estimators(ServeClassLists,
               [k \in 1..NumLabels |-> OutputFns(HeadVec(k), TieVec(k))],
               [k \in 1..NumLabels |-> OutputFns(HeadScores(k), TieScores(k))],
               ServePreds)

\* an estimator whose predict raises (e.g. fitted on another feature count)
RaisingEstimator ==
    Estimator({"predict_proba", "classes_"}, FullClasses,
              [x \in Inputs |-> 0], NoOut, NoOut, TRUE)

\* the estimator stored in keyed artifacts
KeyedEstimator ==
    Estimator({"predict_proba", "classes_"}, <<0, 1, 3>>,
              [x \in Inputs |-> 1], [x \in Inputs |-> HeadVec(3)], NoOut, FALSE)

\* the insertion-ordered keys of a keyed artifact
KeyLists == {<<>>} \cup DistinctSeqs(KeyPool, MaxKeys)

Artifacts ==
    {[kind |-> "absent"], [kind |-> "corrupt"]}
    \cup {[kind |-> "bare", obj |-> m] :
             m \in ServeEstimators \cup {RaisingEstimator}}
    \cup {[kind |-> "dict", keys |-> ks, base |-> KeyedEstimator] :
             ks \in KeyLists}

Increasing(s) == \A i, j \in DOMAIN s : i < j => s[i] < s[j]

Decreasing(s) == \A i, j \in DOMAIN s : i < j => s[i] > s[j]

\* estimators predict_with_probs is checked on alone: every known-classes
\* list over LabelPool up to MaxK long, sorted as np.unique leaves it or in
\* reverse (and the full one), every output vector over the pools, the same
\* for each input
InferClassLists ==
    {s \in DistinctSeqs(LabelPool, MaxK) : Increasing(s) \/ Decreasing(s)}
    \cup {FullClasses}

InferEstimators ==
    UNION {
      UNION {
        {Estimator(attrs, cl, [x \in Inputs |-> 3],
                   [x \in Inputs |-> p], [x \in Inputs |-> s], FALSE) :
            p \in (IF "predict_proba" \notin attrs THEN {<<>>}
                   ELSE IF Len(cl) <= MaxK THEN [1..Len(cl) -> ProbPool]
                   ELSE {HeadVec(Len(cl)), TieVec(Len(cl))}),
            s \in (IF "decision_function" \notin attrs
                      \/ "predict_proba" \in attrs THEN {<<>>}
                   ELSE IF Len(cl) <= MaxK THEN [1..Len(cl) -> LogitPool]
                   ELSE {HeadScores(Len(cl)), TieScores(Len(cl))})}
        : attrs \in SUBSET Attrs}
      : cl \in InferClassLists}

----------------------------------------------------------------------------
(* The served process *)

Init ==
    /\ phase = "boot"
    /\ artifact \in Artifacts
    /\ pil \in BOOLEAN
    /\ model = NoModel
    /\ loads = 0
    /\ log = [text |-> ""]
    /\ req = NoReq
    /\ resp = NoResp
    /\ calls = <<>>

\* lines 45-53, run once when the module is imported
Startup ==
    /\ phase = "boot"
    /\ phase' = "serving"
    /\ model' = LoadedModel(artifact)
    /\ loads' = loads + 1
    /\ log' = LoadLog(artifact)
    /\ UNCHANGED <<artifact, pil, req, resp, calls>>

\* GET /
Home ==
    /\ phase = "serving"
    /\ req' = [route |-> "/"]
    /\ resp' = HomeResponse
    /\ calls' = <<>>
    /\ UNCHANGED <<phase, artifact, pil, model, loads, log>>

\* GET /health
Health ==
    /\ phase = "serving"
    /\ req' = [route |-> "/health"]
    /\ resp' = HealthResponse(model)
    /\ calls' = <<>>
    /\ UNCHANGED <<phase, artifact, pil, model, loads, log>>

\* POST /predict that clears the global model when the request fails
Predict_ClearsModelOnFailure ==
    /\ phase = "serving"
    /\ \E data \in PredictBodies :
          LET h == PredictHandler(model, data)
          IN  /\ req' = [route |-> "/predict", data |-> data]
              /\ resp' = h.resp
              /\ calls' = h.calls
              /\ model' = IF h.resp.status = 500 THEN NoModel ELSE model
    /\ UNCHANGED <<phase, artifact, pil, loads, log>>

\* POST /predict
Predict ==
    /\ phase = "serving"
    /\ \E data \in PredictBodies :
          LET h == PredictHandler(model, data)
          IN  /\ req' = [route |-> "/predict", data |-> data]
              /\ resp' = h.resp
              /\ calls' = h.calls
    /\ UNCHANGED <<phase, artifact, pil, model, loads, log>>

\* POST /predict_image
PredictImage ==
    /\ phase = "serving"
    /\ \E data \in ImageBodies :
          LET h == PredictImageHandler(model, data, pil)
          IN  /\ req' = [route |-> "/predict_image", data |-> data]
              /\ resp' = h.resp
              /\ calls' = h.calls
    /\ UNCHANGED <<phase, artifact, pil, model, loads, log>>

Next == Startup \/ Home \/ Health \/ Predict \/ PredictImage

Spec == Init /\ [][Next]_vars

----------------------------------------------------------------------------
(* predict_with_probs on its own *)

InitInfer ==
    /\ phase = "infer"
    /\ artifact = [kind |-> "none"]
    /\ pil = TRUE
    /\ model \in InferEstimators
    /\ loads = 0
    /\ log = [text |-> ""]
    /\ req = NoReq
    /\ resp = NoResp
    /\ calls = <<>>

\* one call predict_with_probs(pixel_array) on the loaded estimator
Infer ==
    /\ phase = "infer"
    /\ \E x \in Inputs :
          /\ req' = [route |-> "predict_with_probs", x |-> x]
          /\ resp' = predict_with_probs(model, x)
          /\ calls' = InferCalls(model)
    /\ UNCHANGED <<phase, artifact, pil, model, loads, log>>

NextInfer == Infer

SpecInfer == InitInfer /\ [][NextInfer]_vars

----------------------------------------------------------------------------
(* Properties *)

InferenceRoutes == {"/predict", "/predict_image"}

\* the "error" code of a response, "" when it carries none
ErrorOf(r) == IF "error" \in DOMAIN r.body THEN r.body.error ELSE ""

\* the startup load raised
LoadFailed == ~load_model_any(artifact).ok

\* index of the first maximal entry of a vector (first-match arg-max scan)
ArgMax(v) ==
    (CHOOSE i \in DOMAIN v :
        /\ v[i] = MaxOf(v)
        /\ \A j \in DOMAIN v : v[j] = MaxOf(v) => i <= j) - 1

\* predict_with_probs has been called and has returned a Distribution
Returned == phase = "infer" /\ req # NoReq /\ resp.ok

\* C1: the Distribution predict_with_probs returns always has exactly 10
\* entries, whichever inference path is taken and whatever the estimator's
\* own class count or labels are.
C1_DistributionHasTenEntries == Returned => Len(resp.probs) = NumLabels

\* C2: on every successful /predict and /predict_image response the digit
\* is the arg-max index of the returned probabilities, ties to the lowest
\* index, so its probability equals the returned confidence.
C2_DigitIsArgMax ==
    (phase = "serving" /\ req.route \in InferenceRoutes /\ resp.status = 200)
    => /\ resp.body.digit = ArgMax(resp.body.probabilities)
       /\ resp.body.probabilities[resp.body.digit + 1] = resp.body.confidence

\* the vector the estimator reports on the path predict_with_probs takes
ReportedVector(m, x) ==
    IF "predict_proba" \in m.attrs THEN m.proba[x] ELSE Softmax(m.scores[x])

\* predict_with_probs was called on an estimator that exposes classes_, a
\* list of k < 10 distinct labels in 0..9, and reports a vector of k values
SubsetCase ==
    /\ phase = "infer"
    /\ req # NoReq
    /\ "classes_" \in model.attrs
    /\ model.attrs \cap {"predict_proba", "decision_function"} # {}
    /\ Len(model.classes) < NumLabels
    /\ Distinct(model.classes)
    /\ Range(model.classes) \subseteq 0..(NumLabels - 1)
    /\ Len(ReportedVector(model, req.x)) = Len(model.classes)

\* C3: class-subset scatter.  On the predict_proba and the decision_function
\* path, for known classes of k < 10 distinct labels in 0..9 and a reported
\* vector p, the Distribution is 10 wide, holds p[i] at index classes[i] and
\* exactly 0 at every index that is not a known class.
C3_ClassSubsetScatter ==
    SubsetCase =>
        LET p == ReportedVector(model, req.x)
        IN  /\ resp.ok
            /\ Len(resp.probs) = NumLabels
            /\ \A i \in DOMAIN model.classes :
                  resp.probs[model.classes[i] + 1] = p[i]
            /\ \A c \in (0..(NumLabels - 1)) \ Range(model.classes) :
                  resp.probs[c + 1] = 0

\* classes [0,1,3] with [0.2,0.5,0.3] scattered to ten entries
C3_Witness ==
    /\ SubsetCase
    /\ model.classes = <<0, 1, 3>>
    /\ "predict_proba" \in model.attrs
    /\ model.proba[req.x] = <<200, 500, 300>>
    /\ resp.probs = <<200, 500, 0, 300, 0, 0, 0, 0, 0, 0>>

\* C4: after a failed startup load the handle stays unavailable, the load is
\* never attempted again, and every /predict and /predict_image call, with
\* any body, answers "Model not loaded" without reading or validating the
\* body and without calling the estimator.
C4_UnavailableUntilRestart ==
    (phase = "serving" /\ LoadFailed)
    => /\ model = NoModel
       /\ loads = 1
       /\ req.route \in InferenceRoutes
          => /\ resp.status = 500
             /\ ErrorOf(resp) = "Model not loaded"
             /\ calls = <<>>

\* a well-formed /predict request answered after a failed load
C4_Witness ==
    /\ phase = "serving"
    /\ LoadFailed
    /\ req.route = "/predict"
    /\ req.data.kind = "object"
    /\ req.data.has
    /\ req.data.val.isList
    /\ req.data.val.len = ExpectedPixels
    /\ req.data.val.elems = "numeric"
    /\ ErrorOf(resp) = "Model not loaded"

\* POST /predict with a "pixels" list, on a loaded model
PixelListCase ==
    /\ phase = "serving"
    /\ model # NoModel
    /\ req.route = "/predict"
    /\ req.data.kind = "object"
    /\ req.data.has
    /\ req.data.val.isList

\* C5: with a loaded model, a "pixels" list of exactly 784 entries is never
\* rejected as invalid input (and, its entries being numbers, reaches the
\* estimator); a list of any other length is rejected with 400 "Invalid
\* pixels" and a message giving the expected count 784 and the actual count.
C5_PixelCount ==
    PixelListCase =>
        LET pixels == req.data.val
        IN  IF pixels.len = ExpectedPixels
            THEN /\ resp.status # 400
                 /\ ErrorOf(resp) \notin {"Invalid pixels", "Invalid request"}
                 /\ pixels.elems = "numeric" => "predict" \in Range(calls)
            ELSE /\ resp.status = 400
                 /\ ErrorOf(resp) = "Invalid pixels"
                 /\ resp.body.message.expected = 784
                 /\ resp.body.message.got = pixels.len
                 /\ "predict" \notin Range(calls)

\* a list one entry short is rejected with both counts reported
C5_Witness ==
    /\ PixelListCase
    /\ req.data.val.len = 783
    /\ resp.status = 400
    /\ resp.body.message.expected = 784
    /\ resp.body.message.got = 783

\* the response to request r of a process that loaded art and has handled
\* nothing else
AloneResponse(r, art, hasPil) ==
    CASE r.route = "/"              -> HomeResponse
      [] r.route = "/health"        -> HealthResponse(LoadedModel(art))
      [] r.route = "/predict"       ->
            PredictHandler(LoadedModel(art), r.data).resp
      [] r.route = "/predict_image" ->
            PredictImageHandler(LoadedModel(art), r.data, hasPil).resp

\* C6: request isolation.  Whatever requests were handled before, and
\* whether they failed, the model handle is the one the startup load left,
\* nothing was loaded again, and the response to the last request is the one
\* that request gets when run alone (so identical requests get identical
\* responses).
C6_RequestIsolation ==
    phase = "serving"
    => /\ model = LoadedModel(artifact)
       /\ loads = 1
       /\ log = LoadLog(artifact)
       /\ req # NoReq => resp = AloneResponse(req, artifact, pil)

\* a request failed inside inference and the handle is still loaded
C6_Witness ==
    /\ phase = "serving"
    /\ model # NoModel
    /\ model = LoadedModel(artifact)
    /\ req.route = "/predict"
    /\ resp.status = 500
    /\ ErrorOf(resp) = "Prediction failed"

\* position of key k in the priority list order, Len(order) + 1 if absent
Rank(order, k) ==
    IF k \in Range(order)
    THEN CHOOSE i \in DOMAIN order : order[i] = k
    ELSE Len(order) + 1

\* what the loader owes for a priority list of recognized keys
LoaderContract(order) ==
    phase = "serving" =>
        CASE artifact.kind = "bare" -> model = artifact.obj
          [] artifact.kind = "dict" ->
                IF Range(order) \cap Range(artifact.keys) # {}
                THEN /\ model # NoModel
                     /\ model.name \in Range(order) \cap Range(artifact.keys)
                     /\ model = ValueUnder(artifact, model.name)
                     /\ \A k \in Range(order) \cap Range(artifact.keys) :
                           Rank(order, model.name) <= Rank(order, k)
                ELSE /\ model = NoModel
                     /\ "found_keys" \in DOMAIN log
                     /\ log.found_keys = artifact.keys
          [] OTHER -> model = NoModel

\* C7 as stated: the recognized keys are "model", "classifier", "pipeline",
\* "estimator", in that priority; a mapping yields the value under the first
\* present one, fails enumerating its keys when none is present, and any
\* other artifact is the model itself.
C7_ClassifierKey ==
    LoaderContract(<<"model", "classifier", "pipeline", "estimator">>)

\* C7 as amended: the same with the recognized keys "model", "clf",
\* "pipeline", "estimator".
C7_ClfKey == LoaderContract(<<"model", "clf", "pipeline", "estimator">>)

\* a mapping saved with "estimator" before "clf" yields the value under "clf"
C7_Witness ==
    /\ phase = "serving"
    /\ artifact.kind = "dict"
    /\ artifact.keys = <<"estimator", "clf">>
    /\ model.name = "clf"

\* the last request violates the shape, type or field presence the route asks
ShapeViolation ==
    /\ req.route \in InferenceRoutes
    /\ \/ req.data.kind # "object"
       \/ ~req.data.has
       \/ /\ req.route = "/predict"
          /\ \/ ~req.data.val.isList
             \/ req.data.val.len # ExpectedPixels
             \/ req.data.val.elems # "numeric"
       \/ /\ req.route = "/predict_image"
          /\ ~req.data.val.decodable

\* the estimator was invoked for the last request and the handler failed
InvocationFailed == "predict" \in Range(calls) /\ resp.status # 200

\* C8: with a loaded model every shape, type or field-presence violation is
\* answered 400 with an invalid-input code, and 500 is answered only when
\* the estimator's invocation failed or the image dependency is missing.
C8_InvalidInputIs400 ==
    (phase = "serving" /\ model # NoModel /\ req.route \in InferenceRoutes)
    => /\ ShapeViolation
          => /\ resp.status = 400
             /\ ErrorOf(resp) \in {"Invalid request", "Invalid pixels"}
       /\ resp.status = 500
          => \/ InvocationFailed
             \/ req.route = "/predict_image" /\ ~pil

\* C9: /health reports model_loaded exactly when the startup load succeeded,
\* and status "healthy" when it did, "unhealthy" when it did not.
C9_HealthReflectsLoad ==
    (phase = "serving" /\ req.route = "/health")
    => /\ resp.body.model_loaded = ~LoadFailed
       /\ resp.body.status = IF LoadFailed THEN "unhealthy" ELSE "healthy"

\* the failure kind an error code stands for
KindOfCode(code) ==
    CASE code = "Model not loaded"                           -> "ModelNotLoaded"
      [] code \in {"Invalid request", "Invalid pixels"}      -> "InvalidInput"
      [] code \in {"Prediction failed", "Image prediction failed"}
                                                             -> "InferenceError"
      [] code = "PIL not installed"              -> "OptionalDependencyMissing"
      [] OTHER                                               -> "none"

\* the failure kind of the last request
FailureKind ==
    IF model = NoModel THEN "ModelNotLoaded"
    ELSE IF InvocationFailed THEN "InferenceError"
    ELSE IF req.route = "/predict_image" /\ ~pil
            /\ req.data.kind \in {"list", "string", "object"} /\ req.data.has
         THEN "OptionalDependencyMissing"
    ELSE "InvalidInput"

\* C10: every failure response of /predict and /predict_image carries an
\* "error" code and a "message", has status 400 or 500, and its code is one
\* of its failure kind (distinct kinds, distinct codes).
C10_FailureRecord ==
    (phase = "serving" /\ req.route \in InferenceRoutes /\ resp.status # 200)
    => /\ resp.status \in {400, 500}
       /\ {"error", "message"} \subseteq DOMAIN resp.body
       /\ KindOfCode(ErrorOf(resp)) = FailureKind

====
